---- MODULE Spec2Model ----
(***************************************************************************)
(* Model of ghpcfe/cluster_manager/c2.py: the command-and-control layer    *)
(* that sends commands to clusters over one Pub/Sub topic and dispatches   *)
(* the messages the clusters send back.                                    *)
(*                                                                         *)
(* Threads of the program:                                                 *)
(*   - the thread that calls startup();                                    *)
(*   - the application thread that calls send_command / send_update /      *)
(*     register_command;                                                   *)
(*   - the subscriber's callback workers, each running _c2_respCB on one   *)
(*     message at a time, concurrently with each other;                    *)
(*   - the application thread that creates and deletes the clusters'       *)
(*     subscriptions and grants service accounts access to them.           *)
(* Three specifications share the state: Spec (startup, the facade and the *)
(* dispatch of messages), SpecSub (startup and the management of           *)
(* subscriptions) and SpecStatus (startup and the dispatch of the clusters'*)
(* status reports in all their forms).                                     *)
(* A step of the model is one access to shared state (a dict operation on  *)
(* _c2_callbackMap or _c2_ackMap is atomic under the interpreter lock) or   *)
(* one call of an application callback.                                    *)
(*                                                                         *)
(* Python values: None is the string "None"; a dict is a function from its *)
(* keys to values; JSON text on the wire is a record [ok, pairs] (ok FALSE *)
(* for bytes json.loads rejects).  No scalar of the model is the string    *)
(* "None".                                                                 *)
(***************************************************************************)
EXTENDS Integers, Sequences, FiniteSets, TLC

\* ---------------------------------------------------------------- bounds
\* Number of messages the receive loop hands to _c2_respCB in one run.
MaxDispatch == 2
\* Number of send_command calls in one run.
MaxSend == 1

\* The subscriber's callback threads.
WorkerOrder == <<"w1", "w2">>
Workers == {WorkerOrder[i] : i \in 1..Len(WorkerOrder)}

\* --------------------------------------------------------- Python values
None == "None"

\* `not v` for the scalars of the model (None and the empty string are falsy).
Falsy(v) == v = None \/ v = ""

EmptyDict == [k \in {} |-> ""]

\* d.get(k, None)
DictGet(d, k) == IF k \in DOMAIN d THEN d[k] ELSE None

\* d[k] = v
DictSet(d, k, v) == [x \in DOMAIN d \cup {k} |-> IF x = k THEN v ELSE d[x]]

\* d.pop(k) leaves d without k (the caller has checked k \in DOMAIN d)
DictPopped(d, k) == [x \in DOMAIN d \ {k} |-> d[x]]

\* The keys bodies of this program use, in the order the model writes them.
KeyOrder == <<"ackid", "cluster_id", "id", "job", "message", "status">>

\* json.dumps(d): the object's members as JSON text.
JsonDumps(d) ==
    LET keys == SelectSeq(KeyOrder, LAMBDA k : k \in DOMAIN d)
    IN  [ok |-> TRUE, pairs |-> [i \in 1..Len(keys) |-> <<keys[i], d[keys[i]]>>]]

\* Text json.loads rejects.
Garbage == [ok |-> FALSE, pairs |-> <<>>]

\* json.loads(text) on well-formed text: the last member of a name wins.
JsonLoads(text) ==
    LET ps   == text.pairs
        keys == {ps[i][1] : i \in 1..Len(ps)}
        last(k) == CHOOSE i \in 1..Len(ps) :
                      /\ ps[i][1] = k
                      /\ \A j \in 1..Len(ps) : ps[j][1] = k => j <= i
    IN  [k \in keys |-> ps[last(k)][2]]

JsonParses(text) == text.ok

\* str(uuid.uuid4()): the n-th identifier generated in this process.
Uuid(n) == "u" \o ToString(n)

\* get_cluster_sub_id
get_cluster_sub_id(cluster_id) == "cluster_" \o cluster_id

\* ------------------------------------------------------------ the actors
\* Cluster ids, commands and payloads the application sends.
ClusterIds == {"7"}
OutCommands == {"DEPLOY"}
DataInputs == {[job |-> "j1"]}

\* Response closures the application passes as onResponse; None: omitted.
RespHandlers == {"f", "g"}

\* What a call of an application callback can do: return (a truthy or a
\* falsy value), raise KeyError, or raise any other exception.
CallOutcomes == {"True", "False", "KeyError", "Exception"}

\* The handlers startup() registers, in its order (lines 296-300).
BuiltinCommands ==
    << <<"ACK", "cb_ack">>, <<"UPDATE", "cb_update">>, <<"PING", "c2_ping">>,
       <<"PONG", "c2_pong">>, <<"CLUSTER_STATUS", "cb_cluster_status">> >>

\* Commands the application registers itself, and the handler it registers.
AppCommands == {"CUSTOM"}
AppHandler == "cb_custom"

\* Pub/Sub names: conf['server']['c2_topic'] and the paths made from it.
Topic == "c2"
TopicPath == "projects/p/topics/" \o Topic
ControllerSubId == "c2resp"

\* The clusters that get a subscription, the endpoint ids in use and the
\* principals the application grants access to.
AllClusterIds == {"7", "8"}
SubIds == {ControllerSubId} \cup {get_cluster_sub_id(c) : c \in AllClusterIds}
ServiceAccounts == {"sa1"}

\* _C2State.get_subscription_path
get_subscription_path(sub_id) == "projects/p/subscriptions/" \o Topic \o "-" \o sub_id

\* get_or_create_subscription filtering on the subscription's name (the
\* sub_id get_subscription_path makes at line 197) instead of the endpoint id.
SubscriptionFilter_by_name(sub_id, filter_target) ==
    IF filter_target THEN "attributes.target=\"" \o Topic \o "-" \o sub_id \o "\""
                     ELSE "NOT attributes:target"

\* The filter get_or_create_subscription asks for (lines 206-209).
SubscriptionFilter(sub_id, filter_target) ==
    IF filter_target THEN "attributes.target=\"" \o sub_id \o "\""
                     ELSE "NOT attributes:target"

VARIABLES
    _c2State,       \* the _C2State object (obj FALSE: _c2State is None)
    subscriptions,  \* the transport's subscriptions: path -> filter
    _c2_callbackMap, \* command -> handler
    _c2_ackMap,     \* ackid -> response closure
    published,      \* the messages handed to pubClient.publish so far
    startupT,       \* the thread in startup(): its position, and the
                    \* receive loops it has started so far (loops)
    sender,         \* the thread in send_command: its position and locals
    workers,        \* the callback threads: position, message and outcome
    issued,         \* history: issued[n] is the closure stored under Uuid(n)
    ackCalls,       \* history: closures cb_ack has called, per ackid
    lastSend,       \* history: how the last send_command call ended
    nDispatch,      \* history: messages dispatched so far
    nSends,         \* history: send_command calls so far
    iam,            \* the transport's IAM policies: a set of bindings
    subCall,        \* the thread administering subscriptions: its position,
                    \* arguments and how its call ended
    clusters        \* the application's Cluster records: pk -> record

vars == <<_c2State, subscriptions, _c2_callbackMap, _c2_ackMap, published, startupT,
          sender, workers, issued, ackCalls, lastSend, nDispatch, nSends,
          iam, subCall, clusters>>

\* Every identifier send_command can generate in one run.
AllUuids == {Uuid(n) : n \in 1..MaxSend}

\* A message as the subscriber delivers it: attributes and data.
Message(command, source, data) ==
    [command |-> command, source |-> source, data |-> data]

\* A callback thread.  pc: idle, handler (in the command handler), call (in
\* the response closure), done.  msg, callback (the registry's answer) and cb
\* (the closure looked up) are locals of the code.  The rest is history of
\* the dispatch: pre / found / post are the entry of _c2_ackMap for the
\* message's ackid when _c2_respCB began, when the handler looked it up and
\* when _c2_respCB was left; result is how the handler ended; acks / nacks
\* count message.ack() / message.nack(); raised is the exception that left
\* _c2_respCB; invoked lists the closure calls, sent the messages published.
IdleWorker ==
    [pc |-> "idle", msg |-> Message(None, None, Garbage), callback |-> None,
     cb |-> None, found |-> None, pre |-> None, post |-> None,
     result |-> None, acks |-> 0, nacks |-> 0, raised |-> None,
     invoked |-> <<>>, sent |-> <<>>]

IdleSender ==
    [pc |-> "idle", cluster_id |-> None, cmd |-> None, data |-> EmptyDict,
     onResponse |-> None]

NoSend ==
    [done |-> FALSE, onResponse |-> None, ackid |-> None, retval |-> None,
     raised |-> None, entries |-> 0, sent |-> <<>>, cluster_id |-> None]

\* The thread that administers subscriptions.  pc: idle, create (before
\* create_subscription), grant_sub / grant_topic (in setup_service_account),
\* ended.  op is the call it is in, sub_id and service_account its arguments;
\* the rest is history of the call: answer is what create_subscription
\* answered, before the subscriptions when the call began, retval what the
\* call returned and raised the exception that left it; paths[s] is the path
\* the call that created the subscription of endpoint s returned.
IdleSubCall ==
    [pc |-> "idle", op |-> None, sub_id |-> None, service_account |-> None,
     answer |-> None, before |-> EmptyDict, retval |-> None, raised |-> None,
     paths |-> [s \in SubIds |-> None]]

\* The state after the module is imported (lines 58, 79, 259).  The
\* controller's subscription may survive from an earlier run of the process.
Init ==
    /\ _c2State = [obj |-> FALSE, topic_path |-> None,
                  streaming_pull_future |-> FALSE]
    /\ subscriptions \in
          {EmptyDict,
           [p \in {get_subscription_path(ControllerSubId)} |->
               SubscriptionFilter(ControllerSubId, FALSE)]}
    /\ _c2_callbackMap = EmptyDict
    /\ _c2_ackMap = EmptyDict
    /\ published = {}
    /\ startupT = [pc |-> "idle", ret |-> "idle", reg |-> 1, loops |-> 0]
    /\ sender = IdleSender
    /\ workers = [w \in Workers |-> IdleWorker]
    /\ issued = <<>>
    /\ ackCalls = [x \in AllUuids |-> 0]
    /\ lastSend = NoSend
    /\ nDispatch = 0
    /\ nSends = 0
    /\ iam = {}
    /\ subCall = IdleSubCall
    /\ clusters = [pk \in AllClusterIds |-> [status |-> "n"]]

\* The record a worker keeps of a finished dispatch is history only, and the
\* worker's return to the pool (_c2_respCB_return) touches nothing else: it is
\* taken before any other step, so that a finished dispatch is looked at in
\* the state it finished in.  The same holds for a startup() call that was
\* turned away (StartupReturn).
Quiet ==
    /\ \A w \in Workers : workers[w].pc # "done"
    /\ startupT.pc # "rejected"

\* ---------------------------------------------------------------- startup
\* _C2State.__init__, lines 162-168: a state object with nothing set up.
NewC2State == [obj |-> TRUE, topic_path |-> None, streaming_pull_future |-> FALSE]

\* startup() going ahead whether or not the module is initialized.
AlreadyStarted_never(state) == FALSE

\* startup(), line 289: `if _c2State:`.
AlreadyStarted(state) == state.obj

\* startup(), lines 287-293: a call of startup(), the first of the process
\* or a later one when the earlier has returned or raised: the guard against
\* a second start (the error is logged and the call returns), else the state
\* object.
StartupCreate ==
    /\ Quiet
    /\ startupT.pc \in {"idle", "done", "failed"}
    /\ IF AlreadyStarted(_c2State)
       THEN /\ startupT' = [startupT EXCEPT !.pc = "rejected", !.ret = startupT.pc]
            /\ UNCHANGED _c2State
       ELSE /\ _c2State' = NewC2State
            /\ startupT' = [startupT EXCEPT !.pc = "config", !.reg = 1]
    /\ UNCHANGED <<subscriptions, _c2_callbackMap, _c2_ackMap, published, sender,
                   workers, issued, ackCalls, lastSend, nDispatch, nSends,
                   iam, subCall, clusters>>

\* _C2State.startup, lines 185-188: the configuration and the topic path.
StartupConfig ==
    /\ Quiet
    /\ startupT.pc = "config"
    /\ _c2State' = [_c2State EXCEPT !.topic_path = TopicPath]
    /\ startupT' = [startupT EXCEPT !.pc = "subscription"]
    /\ UNCHANGED <<subscriptions, _c2_callbackMap, _c2_ackMap, published, sender,
                   workers, issued, ackCalls, lastSend, nDispatch, nSends,
                   iam, subCall, clusters>>

\* The exception of a transport call that failed for another reason than
\* AlreadyExists (no permission, no such topic, no connection).
TransportError == "GoogleAPICallError"

\* get_or_create_subscription with no except clause for AlreadyExists.
CreationRaises_AlreadyExists(answer) == answer # "Created"

\* get_or_create_subscription, lines 211-221: the answers of
\* create_subscription that leave the method as an exception; AlreadyExists
\* is caught.
CreationRaises(answer) == answer \notin {"Created", "AlreadyExists"}

\* get_or_create_subscription, lines 200-215 and 219-223: the request, and
\* create_subscription as the transport answers it (`fault`: it fails for
\* another reason than AlreadyExists).  A new subscription is added with the
\* filter asked for, an existing one is left as it is.
get_or_create_subscription(subs, sub_id, filter_target, fault) ==
    LET sub_path == get_subscription_path(sub_id)
        filter   == SubscriptionFilter(sub_id, filter_target)
        answer   == IF fault THEN TransportError
                    ELSE IF sub_path \in DOMAIN subs THEN "AlreadyExists"
                    ELSE "Created"
    IN  [answer   |-> answer,
         subs     |-> IF answer = "Created" THEN DictSet(subs, sub_path, filter)
                                            ELSE subs,
         raised   |-> IF CreationRaises(answer) THEN answer ELSE None,
         sub_path |-> sub_path]

\* _C2State.startup, line 190: the controller's subscription.  A failure to
\* create it leaves startup() as an exception.
StartupSubscription(fault) ==
    /\ Quiet
    /\ startupT.pc = "subscription"
    /\ LET r == get_or_create_subscription(subscriptions, ControllerSubId, FALSE, fault)
       IN  /\ subscriptions' = r.subs
           /\ startupT' = [startupT EXCEPT
                             !.pc = IF r.raised = None THEN "subscribe" ELSE "failed"]
    /\ UNCHANGED <<_c2State, _c2_callbackMap, _c2_ackMap, published, sender,
                   workers, issued, ackCalls, lastSend, nDispatch, nSends,
                   iam, subCall, clusters>>

\* _C2State.startup, line 192: the receive loop starts, bound to _c2_respCB.
StartupSubscribe ==
    /\ Quiet
    /\ startupT.pc = "subscribe"
    /\ _c2State' = [_c2State EXCEPT !.streaming_pull_future = TRUE]
    /\ startupT' = [startupT EXCEPT !.pc = "register", !.loops = @ + 1]
    /\ UNCHANGED <<subscriptions, _c2_callbackMap, _c2_ackMap, published, sender,
                   workers, issued, ackCalls, lastSend, nDispatch, nSends,
                   iam, subCall, clusters>>

\* register_command, lines 316-317.
register_command(map, command_id, callback) == DictSet(map, command_id, callback)

\* startup(), lines 296-300: the built-in handlers, one call at a time.
StartupRegister ==
    /\ Quiet
    /\ startupT.pc = "register"
    /\ _c2_callbackMap' = register_command(_c2_callbackMap,
                                       BuiltinCommands[startupT.reg][1],
                                       BuiltinCommands[startupT.reg][2])
    /\ startupT' = IF startupT.reg = Len(BuiltinCommands)
                   THEN [startupT EXCEPT !.pc = "done"]
                   ELSE [startupT EXCEPT !.reg = @ + 1]
    /\ UNCHANGED <<_c2State, subscriptions, _c2_ackMap, published, sender,
                   workers, issued, ackCalls, lastSend, nDispatch, nSends,
                   iam, subCall, clusters>>

\* startup(), line 291: the call that was turned away returns.
StartupReturn ==
    /\ startupT.pc = "rejected"
    /\ startupT' = [startupT EXCEPT !.pc = startupT.ret, !.ret = "idle"]
    /\ UNCHANGED <<_c2State, subscriptions, _c2_callbackMap, _c2_ackMap, published,
                   sender, workers, issued, ackCalls, lastSend, nDispatch, nSends,
                   iam, subCall, clusters>>

\* The application registers a handler of its own (register_command).
RegisterCommand(command_id) ==
    /\ Quiet
    /\ startupT.pc = "done"
    /\ _c2_callbackMap' = register_command(_c2_callbackMap, command_id, AppHandler)
    /\ _c2_callbackMap' # _c2_callbackMap      \* registering it again changes nothing
    /\ UNCHANGED <<_c2State, subscriptions, _c2_ackMap, published, startupT, sender,
                   workers, issued, ackCalls, lastSend, nDispatch, nSends,
                   iam, subCall, clusters>>

\* ------------------------------------------------ subscription management
\* The filter_target each caller passes: startup() False for the
\* controller (line 190), create_cluster_subscription True (line 272).
FilterTargetOf(sub_id) == sub_id # ControllerSubId

\* policy.bindings.add(role=..., members=[f"serviceAccount:{...}"]) on the
\* policy of `resource` (lines 233, 237).
Binding(resource, role, service_account) ==
    [resource |-> resource, role |-> role,
     member |-> "serviceAccount:" \o service_account]

\* get_or_create_subscription (lines 200-223) called by the application,
\* create_cluster_subscription (lines 271-272) when service_account is None:
\* up to create_subscription and the except clause.  setup_service_account
\* follows when the subscription is new and a principal was given.
GetOrCreateSubscription(sub_id, service_account, fault) ==
    /\ startupT.pc = "done"
    /\ subCall.pc = "idle"
    /\ LET r == get_or_create_subscription(subscriptions, sub_id,
                                           FilterTargetOf(sub_id), fault)
           grants == r.answer = "Created" /\ ~Falsy(service_account)
       IN  /\ subscriptions' = r.subs
           /\ subCall' = [subCall EXCEPT
                            !.pc = IF grants THEN "grant_sub" ELSE "ended",
                            !.op = "get_or_create_subscription",
                            !.sub_id = sub_id,
                            !.service_account = service_account,
                            !.answer = r.answer,
                            !.before = subscriptions,
                            !.retval = IF grants \/ r.raised # None
                                       THEN None ELSE r.sub_path,
                            !.raised = r.raised,
                            !.paths = IF r.answer = "Created"
                                      THEN [@ EXCEPT ![sub_id] = r.sub_path] ELSE @]
    /\ UNCHANGED <<_c2State, _c2_callbackMap, _c2_ackMap, published, startupT,
                   sender, workers, issued, ackCalls, lastSend, nDispatch, nSends,
                   iam, clusters>>

\* add_cluster_subscription_service_account, lines 275-276: the grants on
\* their own.
AddServiceAccount(cluster_id, service_account) ==
    /\ startupT.pc = "done"
    /\ subCall.pc = "idle"
    /\ subCall' = [subCall EXCEPT
                     !.pc = "grant_sub",
                     !.op = "setup_service_account",
                     !.sub_id = get_cluster_sub_id(cluster_id),
                     !.service_account = service_account,
                     !.answer = None,
                     !.before = subscriptions,
                     !.retval = None,
                     !.raised = None]
    /\ UNCHANGED <<_c2State, subscriptions, _c2_callbackMap, _c2_ackMap, published,
                   startupT, sender, workers, issued, ackCalls, lastSend, nDispatch,
                   nSends, iam, clusters>>

\* setup_service_account, lines 227-234: the subscriber role on the
\* subscription.  The transport call fails when there is no such
\* subscription, or for a reason of its own (`fault`).
GrantSubscriber(fault) ==
    /\ subCall.pc = "grant_sub"
    /\ LET sub_path == get_subscription_path(subCall.sub_id)
       IN  IF fault \/ sub_path \notin DOMAIN subscriptions
           THEN /\ subCall' = [subCall EXCEPT !.pc = "ended", !.raised = TransportError]
                /\ UNCHANGED iam
           ELSE /\ iam' = iam \cup {Binding(sub_path, "roles/pubsub.subscriber",
                                            subCall.service_account)}
                /\ subCall' = [subCall EXCEPT !.pc = "grant_topic"]
    /\ UNCHANGED <<_c2State, subscriptions, _c2_callbackMap, _c2_ackMap, published,
                   startupT, sender, workers, issued, ackCalls, lastSend, nDispatch,
                   nSends, clusters>>

\* setup_service_account, lines 236-238: the publisher role on the topic;
\* then get_or_create_subscription returns the path (line 223).
GrantPublisher(fault) ==
    /\ subCall.pc = "grant_topic"
    /\ IF fault
       THEN /\ subCall' = [subCall EXCEPT !.pc = "ended", !.raised = TransportError]
            /\ UNCHANGED iam
       ELSE /\ iam' = iam \cup {Binding(_c2State.topic_path, "roles/pubsub.publisher",
                                        subCall.service_account)}
            /\ subCall' = [subCall EXCEPT
                             !.pc = "ended",
                             !.retval = IF subCall.op = "get_or_create_subscription"
                                        THEN get_subscription_path(subCall.sub_id)
                                        ELSE None]
    /\ UNCHANGED <<_c2State, subscriptions, _c2_callbackMap, _c2_ackMap, published,
                   startupT, sender, workers, issued, ackCalls, lastSend, nDispatch,
                   nSends, clusters>>

\* delete_cluster_subscription, lines 279-280 and 241-249: the subscription
\* goes, the grants on the topic stay (the TODO of line 245).
delete_cluster_subscription(cluster_id, fault) ==
    /\ startupT.pc = "done"
    /\ subCall.pc = "idle"
    /\ LET sub_id   == get_cluster_sub_id(cluster_id)
           sub_path == get_subscription_path(sub_id)
           fails    == fault \/ sub_path \notin DOMAIN subscriptions
       IN  /\ subscriptions' = IF fails THEN subscriptions
                               ELSE DictPopped(subscriptions, sub_path)
           /\ subCall' = [subCall EXCEPT
                            !.pc = "ended",
                            !.op = "delete_subscription",
                            !.sub_id = sub_id,
                            !.service_account = None,
                            !.answer = None,
                            !.before = subscriptions,
                            !.retval = None,
                            !.raised = IF fails THEN TransportError ELSE None]
    /\ UNCHANGED <<_c2State, _c2_callbackMap, _c2_ackMap, published, startupT,
                   sender, workers, issued, ackCalls, lastSend, nDispatch, nSends,
                   iam, clusters>>

\* The attributes pubClient.publish is given by send_message (line 256).
PublishedAttributes(m) == [target |-> m.target, command |-> m.command]

\* The attributes of a message a cluster sends (lines 41-45): a command, a
\* source and no target; an attribute that is None is not there.
ClusterAttributes(m) ==
    [k \in {x \in {"command", "source"} : m[x] # None} |-> m[k]]

\* The two filters of this design as the transport applies them (lines
\* 29-34): `NOT attributes:target` passes a message without a target
\* attribute, `attributes.target="X"` one whose target attribute is X.
FilterMatches(filter, attrs) ==
    IF filter = "NOT attributes:target"
    THEN "target" \notin DOMAIN attrs
    ELSE /\ "target" \in DOMAIN attrs
         /\ filter = "attributes.target=\"" \o attrs["target"] \o "\""

\* The subscriptions a message with these attributes is delivered to.
Receivers(attrs) ==
    {p \in DOMAIN subscriptions : FilterMatches(subscriptions[p], attrs)}

\* The call has returned or raised: the thread is free for the next call.
SubCallReturn ==
    /\ subCall.pc = "ended"
    /\ subCall' = [IdleSubCall EXCEPT !.paths = subCall.paths]
    /\ UNCHANGED <<_c2State, subscriptions, _c2_callbackMap, _c2_ackMap, published,
                   startupT, sender, workers, issued, ackCalls, lastSend, nDispatch,
                   nSends, iam, clusters>>

\* ------------------------------------------------------- controller facade
\* send_message, lines 252-256: what pubClient.publish is given.
send_message(command, message, target) ==
    [command |-> command, target |-> target, data |-> JsonDumps(message)]

\* send_command storing the closure under another identifier than the one it
\* attaches (a second uuid4() call).
AckMapKey_second_uuid(data) == data["ackid"] \o "'"

\* The key send_command stores onResponse under (lines 305-306): the
\* identifier it has just put in data['ackid'].
AckMapKey(data) == data["ackid"]

\* send_command, lines 303-306: with a response closure, a fresh identifier
\* goes in data['ackid'] and the closure in _c2_ackMap under it.  The
\* application uses the facade once startup() has returned.
SendCommandStore(cluster_id, cmd, data, onResponse) ==
    /\ Quiet
    /\ sender.pc = "idle"
    /\ startupT.pc = "done"
    /\ nSends < MaxSend
    /\ nSends' = nSends + 1
    /\ IF onResponse # None
       THEN LET data2 == DictSet(data, "ackid", Uuid(Len(issued) + 1))
            IN  /\ _c2_ackMap' = DictSet(_c2_ackMap, AckMapKey(data2), onResponse)
                /\ issued' = Append(issued, onResponse)
                /\ sender' = [pc |-> "publish", cluster_id |-> cluster_id,
                              cmd |-> cmd, data |-> data2,
                              onResponse |-> onResponse]
       ELSE /\ sender' = [pc |-> "publish", cluster_id |-> cluster_id,
                          cmd |-> cmd, data |-> data, onResponse |-> None]
            /\ UNCHANGED <<_c2_ackMap, issued>>
    /\ lastSend' = [NoSend EXCEPT !.onResponse = onResponse,
                                  !.cluster_id = cluster_id,
                                  !.entries = Cardinality(DOMAIN _c2_ackMap')
                                              - Cardinality(DOMAIN _c2_ackMap)]
    /\ UNCHANGED <<_c2State, subscriptions, _c2_callbackMap, published, startupT,
                   workers, ackCalls, nDispatch,
                   iam, subCall, clusters>>

\* send_command, line 308: return data['ackid'], a KeyError when data has
\* no such key.
SendCommandReturn(data) ==
    IF "ackid" \in DOMAIN data
    THEN [retval |-> data["ackid"], raised |-> None]
    ELSE [retval |-> None, raised |-> "KeyError"]

\* send_command, lines 307-308: publish, then return.
SendCommandPublish ==
    /\ Quiet
    /\ sender.pc = "publish"
    /\ LET sent == <<send_message(sender.cmd, sender.data,
                                   get_cluster_sub_id(sender.cluster_id))>>
       IN  /\ published' = published \cup {sent[i] : i \in 1..Len(sent)}
           /\ lastSend' = [lastSend EXCEPT
                             !.done = TRUE,
                             !.ackid = IF sender.onResponse # None
                                       THEN sender.data["ackid"] ELSE None,
                             !.retval = SendCommandReturn(sender.data).retval,
                             !.raised = SendCommandReturn(sender.data).raised,
                             !.sent = sent]
    /\ sender' = IdleSender
    /\ UNCHANGED <<_c2State, subscriptions, _c2_callbackMap, _c2_ackMap, startupT,
                   workers, issued, ackCalls, nDispatch, nSends,
                   iam, subCall, clusters>>

\* The ackids of the messages published so far.
PublishedAckids ==
    {JsonLoads(m.data)["ackid"] :
        m \in {x \in published : "ackid" \in DOMAIN JsonLoads(x.data)}}

\* send_update, lines 310-313: an UPDATE carrying the identifier an earlier
\* send_command returned; _c2_ackMap is not touched.
send_update(cluster_id, comm_id, data) ==
    /\ Quiet
    /\ sender.pc = "idle"
    /\ startupT.pc = "done"
    /\ comm_id \in PublishedAckids
    /\ published' = published \cup
                      {send_message("UPDATE", DictSet(data, "ackid", comm_id),
                                    get_cluster_sub_id(cluster_id))}
    /\ published' # published         \* sending it again changes nothing
    /\ UNCHANGED <<_c2State, subscriptions, _c2_callbackMap, _c2_ackMap, startupT,
                   sender, workers, issued, ackCalls, lastSend, nDispatch, nSends,
                   iam, subCall, clusters>>

\* ---------------------------------------------------------- inbound traffic
Sources == {"cluster_7"}

\* Bodies of ACK and UPDATE messages: no ackid, an empty one, one that was
\* never issued ("ux"), or one of `ackids`.
AckBodies(ackids) ==
    {EmptyDict, [ackid |-> ""]} \cup {[ackid |-> x] : x \in {"ux"} \cup ackids}

PingBodies == {EmptyDict, [id |-> "42"]}

\* Status reports: of cluster 7 (complete, without a 'message', with an
\* empty status), without a cluster id, and naming cluster 8 or the unknown
\* cluster 9.
StatusReport(cid) == [cluster_id |-> cid, message |-> "up", status |-> "r"]
StatusBodies ==
    {StatusReport("7"), StatusReport("8"), StatusReport("9"),
     [cluster_id |-> "7", status |-> "r"],
     [cluster_id |-> "7", message |-> "up", status |-> ""],
     [message |-> "up", status |-> "r"]}

InboundWith(ackids) ==
    {Message(c, src, JsonDumps(b)) : c \in {"ACK", "UPDATE"}, src \in Sources, b \in AckBodies(ackids)}
    \cup {Message("PING", src, JsonDumps(b)) : src \in Sources, b \in PingBodies}
    \cup {Message("PONG", src, JsonDumps([id |-> "42"])) : src \in Sources}
    \cup {Message(c, src, JsonDumps(EmptyDict)) : c \in {"CUSTOM", None}, src \in Sources}
    \cup {Message("BOGUS", None, JsonDumps(EmptyDict))}
    \cup {Message(c, src, Garbage) : c \in {"PING", "BOGUS"}, src \in Sources}
    \cup {Message("CLUSTER_STATUS", src, JsonDumps(StatusReport("7"))) : src \in Sources}

\* The status reports the clusters may send: the reports above from cluster
\* 7, the report of cluster 9 from cluster 9, and one that is not JSON.
StatusMessages ==
    {Message("CLUSTER_STATUS", src, JsonDumps(b)) : src \in Sources, b \in StatusBodies}
    \cup {Message("CLUSTER_STATUS", "cluster_9", JsonDumps(StatusReport("9"))),
          Message("CLUSTER_STATUS", "cluster_7", Garbage)}

\* What the receive loop may deliver next; the transport redelivers freely.
\* A cluster answers only a command it was sent (a uuid4 is not guessed).
InboundMessages == InboundWith(PublishedAckids) \cup StatusMessages

AllInboundMessages == InboundWith(AllUuids)

\* ------------------------------------------------------------- dispatcher
\* _c2_respCB nacking where its except clause falls through to ack.
Settle_nack_on_KeyError(outcome) ==
    CASE outcome = "True"     -> [acks |-> 1, nacks |-> 0, raised |-> None]
      [] outcome = "False"    -> [acks |-> 0, nacks |-> 1, raised |-> None]
      [] outcome = "KeyError" -> [acks |-> 0, nacks |-> 1, raised |-> None]
      [] OTHER                -> [acks |-> 0, nacks |-> 0, raised |-> outcome]

\* _c2_respCB, lines 145-155: what the dispatcher does with the way the
\* handler ended.  A true value acks, a false one nacks; a KeyError lands in
\* the except clause written for the registry lookup and falls through to
\* message.ack(); any other exception leaves _c2_respCB.
Settle(outcome) ==
    CASE outcome = "True"     -> [acks |-> 1, nacks |-> 0, raised |-> None]
      [] outcome = "False"    -> [acks |-> 0, nacks |-> 1, raised |-> None]
      [] outcome = "KeyError" -> [acks |-> 1, nacks |-> 0, raised |-> None]
      [] OTHER                -> [acks |-> 0, nacks |-> 0, raised |-> outcome]

\* The worker record when _c2_respCB is left: `result` is how the handler
\* ended (None: none was called), `outcome` what lines 145-155 act on, `map`
\* is _c2_ackMap then.
Finished(wr, result, outcome, map) ==
    LET s == Settle(outcome)
        body == IF JsonParses(wr.msg.data) THEN JsonLoads(wr.msg.data) ELSE EmptyDict
    IN  [wr EXCEPT !.pc = "done", !.result = result,
                   !.acks = s.acks, !.nacks = s.nacks, !.raised = s.raised,
                   !.post = DictGet(map, DictGet(body, "ackid"))]

\* The callback threads are alike: a message goes to the first free one.
FreeWorker(w) ==
    \E i \in 1..Len(WorkerOrder) :
        /\ w = WorkerOrder[i]
        /\ workers[w].pc = "idle"
        /\ \A j \in 1..(i - 1) : workers[WorkerOrder[j]].pc # "idle"

\* _c2_respCB, lines 138-145: the command attribute, the registry lookup
\* and json.loads.  An unknown command (a KeyError of the lookup) is logged
\* and the message acked; data json.loads rejects raises out of _c2_respCB.
_c2_respCB(w, m) ==
    /\ Quiet
    /\ _c2State.streaming_pull_future
    /\ nDispatch < MaxDispatch
    /\ FreeWorker(w)
    /\ m \in InboundMessages
    /\ nDispatch' = nDispatch + 1
    /\ LET fresh == [IdleWorker EXCEPT !.msg = m]
       IN  IF m.command \notin DOMAIN _c2_callbackMap
           THEN workers' = [workers EXCEPT ![w] =
                              Finished(fresh, None, "KeyError", _c2_ackMap)]
           ELSE IF ~JsonParses(m.data)
           THEN workers' = [workers EXCEPT ![w] =
                              Finished([fresh EXCEPT !.callback = _c2_callbackMap[m.command]],
                                       None, "JSONDecodeError", _c2_ackMap)]
           ELSE workers' = [workers EXCEPT ![w] =
                              [fresh EXCEPT
                                 !.pc = "handler",
                                 !.callback = _c2_callbackMap[m.command],
                                 !.pre = DictGet(_c2_ackMap,
                                            DictGet(JsonLoads(m.data), "ackid"))]]
    /\ UNCHANGED <<_c2State, subscriptions, _c2_callbackMap, _c2_ackMap, published,
                   startupT, sender, issued, ackCalls, lastSend, nSends,
                   iam, subCall, clusters>>

\* How a call of a response closure can end; its return value is not used.
ClosureOutcomes == {"Return", "KeyError", "Exception"}

\* cb_ack reading the entry where it should remove it.
cb_ack_lookup_read(map, ackid) ==
    IF ackid \in DOMAIN map
    THEN [cb |-> map[ackid], map |-> map]
    ELSE [cb |-> None, map |-> map]

\* cb_ack, line 88: _c2_ackMap.pop(ackid); cb None stands for its KeyError.
cb_ack_lookup(map, ackid) ==
    IF ackid \in DOMAIN map
    THEN [cb |-> map[ackid], map |-> DictPopped(map, ackid)]
    ELSE [cb |-> None, map |-> map]

\* cb_update removing the entry where it should read it.
cb_update_lookup_pop(map, ackid) ==
    IF ackid \in DOMAIN map
    THEN [cb |-> map[ackid], map |-> DictPopped(map, ackid)]
    ELSE [cb |-> None, map |-> map]

\* cb_update, line 105: _c2_ackMap[ackid]; cb None stands for its KeyError.
cb_update_lookup(map, ackid) ==
    IF ackid \in DOMAIN map
    THEN [cb |-> map[ackid], map |-> map]
    ELSE [cb |-> None, map |-> map]

\* cb_ack / cb_update up to the call of the closure (lines 82-89, 99-106):
\* without an ackid, or without an entry for it (the KeyError is caught at
\* line 91 / 108), the handler returns True.
Correlate(w, lookup) ==
    LET wr    == workers[w]
        ackid == DictGet(JsonLoads(wr.msg.data), "ackid")
    IN  IF Falsy(ackid)
        THEN /\ workers' = [workers EXCEPT ![w] =
                              Finished(wr, "True", "True", _c2_ackMap)]
             /\ UNCHANGED _c2_ackMap
        ELSE IF lookup.cb = None
        THEN /\ workers' = [workers EXCEPT ![w] =
                              Finished([wr EXCEPT !.found = DictGet(_c2_ackMap, ackid)],
                                       "True", "True", lookup.map)]
             /\ _c2_ackMap' = lookup.map
        ELSE /\ workers' = [workers EXCEPT ![w] =
                              [wr EXCEPT !.pc = "call", !.cb = lookup.cb,
                                         !.found = DictGet(_c2_ackMap, ackid)]]
             /\ _c2_ackMap' = lookup.map

\* cb_ack, lines 81-89.
cb_ack(w) ==
    /\ Quiet
    /\ workers[w].pc = "handler"
    /\ workers[w].callback = "cb_ack"
    /\ Correlate(w, cb_ack_lookup(_c2_ackMap, DictGet(JsonLoads(workers[w].msg.data), "ackid")))
    /\ UNCHANGED <<_c2State, subscriptions, _c2_callbackMap, published, startupT,
                   sender, issued, ackCalls, lastSend, nDispatch, nSends,
                   iam, subCall, clusters>>

\* cb_update, lines 98-106.
cb_update(w) ==
    /\ Quiet
    /\ workers[w].pc = "handler"
    /\ workers[w].callback = "cb_update"
    /\ Correlate(w, cb_update_lookup(_c2_ackMap, DictGet(JsonLoads(workers[w].msg.data), "ackid")))
    /\ UNCHANGED <<_c2State, subscriptions, _c2_callbackMap, published, startupT,
                   sender, issued, ackCalls, lastSend, nDispatch, nSends,
                   iam, subCall, clusters>>

\* How cb_ack / cb_update end when the closure has ended (lines 90-95,
\* 107-112): a KeyError of the closure is caught by the except clause written
\* for the lookup, any other exception leaves the handler.
AfterClosure(ended) ==
    IF ended \in {"Return", "KeyError"} THEN "True" ELSE ended

\* cb_ack line 90 / cb_update line 107: cb(message), then the way back
\* through the handler and _c2_respCB.
CallClosure(w, ended) ==
    /\ Quiet
    /\ workers[w].pc = "call"
    /\ LET wr   == workers[w]
           body == JsonLoads(wr.msg.data)
           wr2  == [wr EXCEPT !.invoked =
                       Append(@, [h |-> wr.cb, body |-> body, ended |-> ended])]
       IN  /\ workers' = [workers EXCEPT ![w] =
                            Finished(wr2, AfterClosure(ended), AfterClosure(ended), _c2_ackMap)]
           /\ ackCalls' = IF wr.callback = "cb_ack"
                          THEN [ackCalls EXCEPT ![body["ackid"]] = @ + 1]
                          ELSE ackCalls
    /\ UNCHANGED <<_c2State, subscriptions, _c2_callbackMap, _c2_ackMap, published,
                   startupT, sender, issued, lastSend, nDispatch, nSends,
                   iam, subCall, clusters>>

\* c2_ping taking the source for a cluster id and making the target of it.
PingReply_prefixed_target(message, source_id) ==
    IF "id" \in DOMAIN message
    THEN <<send_message("PONG", [id |-> message["id"]], get_cluster_sub_id(source_id))>>
    ELSE <<>>

\* c2_ping, lines 64-67: the messages c2_ping publishes: a PONG with the id
\* of the PING to its source, when the PING carries an id.
PingReply(message, source_id) ==
    IF "id" \in DOMAIN message
    THEN <<send_message("PONG", [id |-> message["id"]], source_id)>>
    ELSE <<>>

\* c2_ping, lines 61-68: a PING carrying an id is answered with a PONG to
\* its source.
c2_ping(w) ==
    /\ Quiet
    /\ workers[w].pc = "handler"
    /\ workers[w].callback = "c2_ping"
    /\ LET message == JsonLoads(workers[w].msg.data)
           sent == PingReply(message, workers[w].msg.source)
       IN  /\ published' = published \cup {sent[i] : i \in 1..Len(sent)}
           /\ workers' = [workers EXCEPT ![w] =
                            Finished([@ EXCEPT !.sent = sent], "True", "True", _c2_ackMap)]
    /\ UNCHANGED <<_c2State, subscriptions, _c2_callbackMap, _c2_ackMap, startupT,
                   sender, issued, ackCalls, lastSend, nDispatch, nSends,
                   iam, subCall, clusters>>

\* c2_pong, lines 70-75.
c2_pong(w) ==
    /\ Quiet
    /\ workers[w].pc = "handler"
    /\ workers[w].callback = "c2_pong"
    /\ workers' = [workers EXCEPT ![w] = Finished(@, "True", "True", _c2_ackMap)]
    /\ UNCHANGED <<_c2State, subscriptions, _c2_callbackMap, _c2_ackMap, published,
                   startupT, sender, issued, ackCalls, lastSend, nDispatch, nSends,
                   iam, subCall, clusters>>

\* Cluster.objects.get(pk=cid) finds a record (else: DoesNotExist).
ClusterExists(store, cid) == cid \in DOMAIN store

\* cluster.status = new_status; cluster.save(): the store with the record
\* of cid written back.
ClusterSave(store, cid, new_status) == [store EXCEPT ![cid].status = new_status]

\* cb_cluster_status trusting the cluster id of the body, whoever sent it.
StatusChange_unchecked_source(store, message, source_id, fault) ==
    IF /\ "cluster_id" \in DOMAIN message
       /\ ClusterExists(store, message["cluster_id"])
       /\ "message" \in DOMAIN message
       /\ ~Falsy(DictGet(message, "status"))
       /\ ~fault
    THEN ClusterSave(store, message["cluster_id"], message["status"])
    ELSE store

\* cb_cluster_status, lines 117-129: the store after the try block.  The
\* record is written when the body names a cluster (line 118) that is the
\* message's source (line 119) and exists (line 122), carries a 'message'
\* (line 123) and a status that is not empty (line 125), and save() does
\* not fail (`fault`); every exception on the way is caught at line 128.
StatusChange(store, message, source_id, fault) ==
    IF /\ "cluster_id" \in DOMAIN message
       /\ "cluster_" \o message["cluster_id"] = source_id
       /\ ClusterExists(store, message["cluster_id"])
       /\ "message" \in DOMAIN message
       /\ ~Falsy(DictGet(message, "status"))
       /\ ~fault
    THEN ClusterSave(store, message["cluster_id"], message["status"])
    ELSE store

\* cb_cluster_status, lines 115-130: the status report of a cluster; it
\* returns True whatever happened.  The read of the record and its save
\* are one step: the status written does not depend on the one read.
cb_cluster_status(w, fault) ==
    /\ Quiet
    /\ workers[w].pc = "handler"
    /\ workers[w].callback = "cb_cluster_status"
    /\ clusters' = StatusChange(clusters, JsonLoads(workers[w].msg.data),
                                workers[w].msg.source, fault)
    /\ workers' = [workers EXCEPT ![w] = Finished(@, "True", "True", _c2_ackMap)]
    /\ UNCHANGED <<_c2State, subscriptions, _c2_callbackMap, _c2_ackMap, published,
                   startupT, sender, issued, ackCalls, lastSend, nDispatch, nSends,
                   iam, subCall>>

\* A handler the application registered: it returns or raises as it likes,
\* and _c2_respCB (lines 145-155) settles the message.
cb_custom(w, ended) ==
    /\ Quiet
    /\ workers[w].pc = "handler"
    /\ workers[w].callback = AppHandler
    /\ workers' = [workers EXCEPT ![w] = Finished(@, ended, ended, _c2_ackMap)]
    /\ UNCHANGED <<_c2State, subscriptions, _c2_callbackMap, _c2_ackMap, published,
                   startupT, sender, issued, ackCalls, lastSend, nDispatch, nSends,
                   iam, subCall, clusters>>

\* _c2_respCB has returned (or raised): the thread goes back to the pool.
_c2_respCB_return(w) ==
    /\ workers[w].pc = "done"
    /\ workers' = [workers EXCEPT ![w] = IdleWorker]
    /\ UNCHANGED <<_c2State, subscriptions, _c2_callbackMap, _c2_ackMap, published,
                   startupT, sender, issued, ackCalls, lastSend, nDispatch, nSends,
                   iam, subCall, clusters>>

\* ---------------------------------------------------------- specification
Next ==
    \/ \E w \in Workers : _c2_respCB_return(w)
    \/ StartupCreate
    \/ StartupConfig
    \/ \E fault \in BOOLEAN : StartupSubscription(fault)
    \/ StartupSubscribe
    \/ StartupRegister
    \/ StartupReturn
    \/ \E c \in AppCommands : RegisterCommand(c)
    \/ \E c \in ClusterIds, cmd \in OutCommands, d \in DataInputs,
          f \in RespHandlers \cup {None} : SendCommandStore(c, cmd, d, f)
    \/ SendCommandPublish
    \/ \E c \in ClusterIds, x \in AllUuids, d \in DataInputs : send_update(c, x, d)
    \/ \E w \in Workers, m \in AllInboundMessages : _c2_respCB(w, m)
    \/ \E w \in Workers : cb_ack(w)
    \/ \E w \in Workers : cb_update(w)
    \/ \E w \in Workers, e \in ClosureOutcomes : CallClosure(w, e)
    \/ \E w \in Workers : c2_ping(w)
    \/ \E w \in Workers : c2_pong(w)
    \/ \E w \in Workers, fault \in BOOLEAN : cb_cluster_status(w, fault)
    \/ \E w \in Workers, e \in CallOutcomes : cb_custom(w, e)

Spec == Init /\ [][Next]_vars

\* The management of subscriptions on its own: startup() and the calls that
\* create and delete subscriptions and grant access to them.  Nothing of it
\* is read by the dispatch of messages.
NextSub ==
    \/ StartupCreate
    \/ StartupConfig
    \/ \E fault \in BOOLEAN : StartupSubscription(fault)
    \/ StartupSubscribe
    \/ StartupRegister
    \/ StartupReturn
    \/ \E s \in SubIds, p \in ServiceAccounts \cup {None}, fault \in BOOLEAN :
          GetOrCreateSubscription(s, p, fault)
    \/ \E c \in AllClusterIds, p \in ServiceAccounts : AddServiceAccount(c, p)
    \/ \E fault \in BOOLEAN : GrantSubscriber(fault)
    \/ \E fault \in BOOLEAN : GrantPublisher(fault)
    \/ \E c \in AllClusterIds, fault \in BOOLEAN : delete_cluster_subscription(c, fault)
    \/ SubCallReturn

SpecSub == Init /\ [][NextSub]_vars

\* The status reports on their own: startup() and the dispatch of every
\* kind of CLUSTER_STATUS message, by the callback threads concurrently.
NextStatus ==
    \/ \E w \in Workers : _c2_respCB_return(w)
    \/ StartupCreate
    \/ StartupConfig
    \/ \E fault \in BOOLEAN : StartupSubscription(fault)
    \/ StartupSubscribe
    \/ StartupRegister
    \/ StartupReturn
    \/ \E w \in Workers, m \in StatusMessages : _c2_respCB(w, m)
    \/ \E w \in Workers, fault \in BOOLEAN : cb_cluster_status(w, fault)

SpecStatus == Init /\ [][NextStatus]_vars

\* ------------------------------------------------------------------ claims
Done(w) == workers[w].pc = "done"
Parsed(w) == JsonParses(workers[w].msg.data)
Body(w) == JsonLoads(workers[w].msg.data)
AckidOf(w) == DictGet(Body(w), "ackid")
HasAckid(w) == Parsed(w) /\ "ackid" \in DOMAIN Body(w)

\* The closure was called exactly once in this dispatch, it was `h`, and it
\* was given the decoded body of the message.
CalledOnceWith(w, h) ==
    /\ Len(workers[w].invoked) = 1
    /\ workers[w].invoked[1].h = h
    /\ workers[w].invoked[1].body = Body(w)

\* C1 as claimed: when the dispatch of an ACK with ackid X through cb_ack
\* has ended, the table has no entry for X, and an entry that existed when
\* the dispatch began was called exactly once in it, with the body.
C1_AsClaimed ==
    \A w \in Workers :
        (Done(w) /\ workers[w].callback = "cb_ack" /\ HasAckid(w)) =>
            /\ workers[w].post = None
            /\ workers[w].pre # None => CalledOnceWith(w, workers[w].pre)

\* C1 (amended): when the dispatch of an ACK with ackid X through cb_ack has
\* ended, the table has no entry for X; an entry that existed when cb_ack
\* executed its pop was called exactly once in this dispatch, with the
\* message body, and without such an entry no closure was called.
C1_AckReleasesEntry ==
    \A w \in Workers :
        (Done(w) /\ workers[w].callback = "cb_ack" /\ HasAckid(w)) =>
            /\ workers[w].post = None
            /\ workers[w].found # None => CalledOnceWith(w, workers[w].found)
            /\ workers[w].found = None => workers[w].invoked = <<>>

C1_Witness ==
    \E w \in Workers :
        /\ Done(w) /\ workers[w].callback = "cb_ack" /\ HasAckid(w)
        /\ workers[w].found # None
        /\ CalledOnceWith(w, workers[w].found)
        /\ AckidOf(w) \notin DOMAIN _c2_ackMap

\* C2 as claimed: when the dispatch of an UPDATE with ackid X has ended, an
\* entry for X that was in the table when the dispatch began is still there,
\* with the same closure.
C2_AsClaimed ==
    \A w \in Workers :
        (Done(w) /\ workers[w].callback = "cb_update" /\ HasAckid(w)
                 /\ workers[w].pre # None) =>
            workers[w].post = workers[w].pre

\* A step of callback thread w that belongs to the dispatch of an UPDATE.
UpdateStep(w) ==
    /\ workers'[w] # workers[w]
    /\ workers[w].callback = "cb_update" \/ workers'[w].callback = "cb_update"

\* Another thread is between cb_ack's pop of X and its call of the closure,
\* or cb_ack has called the closure of X.
AckTook(w, x) ==
    \/ x \in AllUuids /\ ackCalls[x] >= 1
    \/ \E v \in Workers \ {w} :
          /\ workers[v].callback = "cb_ack" /\ workers[v].pc = "call"
          /\ AckidOf(v) = x

\* C2 (amended): no step of the dispatch of an UPDATE changes the table; an
\* entry for X that cb_update found is called once with the body, and when
\* the dispatch has ended it is still in the table with the same closure,
\* unless an ACK for X dispatched by another thread has removed it meanwhile.
C2_UpdateKeepsEntry ==
    /\ [](\A w \in Workers :
            (Done(w) /\ workers[w].callback = "cb_update" /\ HasAckid(w)
                     /\ workers[w].found # None) =>
                /\ CalledOnceWith(w, workers[w].found)
                /\ \/ workers[w].post = workers[w].found
                   \/ workers[w].post = None /\ AckTook(w, AckidOf(w)))
    /\ [][\A w \in Workers : UpdateStep(w) => _c2_ackMap' = _c2_ackMap]_vars

C2_Witness ==
    \E w \in Workers :
        /\ Done(w) /\ workers[w].callback = "cb_update" /\ HasAckid(w)
        /\ workers[w].found # None
        /\ workers[w].post = workers[w].found
        /\ _c2_ackMap[AckidOf(w)] = workers[w].pre

\* The ACK held by w is one of several for its ackid: another thread holds
\* an ACK for it, or the closure was called for it and this ACK found none.
DuplicateAck(w) ==
    \/ \E v \in Workers \ {w} :
          /\ workers[v].msg.command = "ACK" /\ workers[v].pc \in {"handler", "call"}
          /\ AckidOf(v) = AckidOf(w)
    \/ AckidOf(w) \in AllUuids /\ ackCalls[AckidOf(w)] >= 1 /\ workers[w].found = None

\* C3 as claimed: of the ACKs dispatched for one ackid, in sequence or
\* concurrently, at most one calls the closure, and each is transport-acked
\* with no exception leaving the dispatcher.
C3_AsClaimed ==
    /\ \A x \in AllUuids : ackCalls[x] <= 1
    /\ \A w \in Workers :
          (Done(w) /\ workers[w].callback = "cb_ack" /\ HasAckid(w)
                   /\ ~Falsy(AckidOf(w)) /\ DuplicateAck(w)) =>
              /\ workers[w].acks = 1
              /\ workers[w].nacks = 0
              /\ workers[w].raised = None

\* The n-th identifier is still waiting for its ACK: cb_ack has neither
\* called its closure nor popped it.
Pending(n) ==
    /\ ackCalls[Uuid(n)] = 0
    /\ \A v \in Workers :
          ~(workers[v].callback = "cb_ack" /\ workers[v].pc = "call"
            /\ AckidOf(v) = Uuid(n))

\* C4: send_command with a response closure f returns the identifier X that
\* it put in the published body's 'ackid' and stored f under, the message
\* going to cluster_<c>; f stays stored under X until an ACK for X is
\* dispatched, the ACK that finds it calls f once with its decoded body, and
\* f is called for X once in all.
C4_RoundTrip ==
    /\ (lastSend.done /\ lastSend.onResponse # None) =>
          /\ lastSend.raised = None
          /\ lastSend.retval = Uuid(Len(issued))
          /\ Len(lastSend.sent) = 1
          /\ JsonLoads(lastSend.sent[1].data)["ackid"] = lastSend.retval
          /\ lastSend.sent[1].target = get_cluster_sub_id(lastSend.cluster_id)
          /\ issued[Len(issued)] = lastSend.onResponse
    /\ \A n \in 1..Len(issued) :
          /\ Pending(n) => /\ Uuid(n) \in DOMAIN _c2_ackMap
                           /\ _c2_ackMap[Uuid(n)] = issued[n]
          /\ ackCalls[Uuid(n)] <= 1
          /\ \A w \in Workers :
                (Done(w) /\ workers[w].callback = "cb_ack" /\ HasAckid(w)
                         /\ AckidOf(w) = Uuid(n) /\ workers[w].found # None) =>
                    /\ CalledOnceWith(w, issued[n])
                    /\ ackCalls[Uuid(n)] = 1

C4_Witness ==
    \E w \in Workers :
        /\ lastSend.done /\ lastSend.onResponse # None
        /\ Done(w) /\ workers[w].msg.command = "ACK" /\ HasAckid(w)
        /\ AckidOf(w) = lastSend.retval
        /\ workers[w].msg.source = get_cluster_sub_id(lastSend.cluster_id)
        /\ CalledOnceWith(w, lastSend.onResponse)

\* C5 as claimed: send_command returns normally, the generated identifier
\* with a response closure and a sentinel without one; without one it adds no
\* entry to the table and publishes the command once.
C5_AsClaimed ==
    lastSend.done =>
        /\ lastSend.raised = None
        /\ lastSend.onResponse # None => lastSend.retval = lastSend.ackid
        /\ lastSend.onResponse = None =>
              /\ lastSend.entries = 0
              /\ Len(lastSend.sent) = 1

\* C6 as claimed: for a message whose command has a registered handler the
\* dispatcher calls exactly one of ack / nack, once: ack exactly when the
\* handler returned true, nack exactly when it returned false.
C6_AsClaimed ==
    \A w \in Workers :
        (Done(w) /\ workers[w].callback # None) =>
            /\ workers[w].acks + workers[w].nacks = 1
            /\ workers[w].acks = 1 <=> workers[w].result = "True"
            /\ workers[w].nacks = 1 <=> workers[w].result = "False"

\* C7 as claimed: a handler that raises, a KeyError or anything else, gets
\* its message nacked and not acked, and no exception leaves the dispatcher.
C7_AsClaimed ==
    \A w \in Workers :
        (Done(w) /\ workers[w].result \in {"KeyError", "Exception"}) =>
            /\ workers[w].nacks = 1
            /\ workers[w].acks = 0
            /\ workers[w].raised = None

\* The step in which thread w takes a message whose command is a name the
\* registry does not hold.
UnknownCommandStep(w) ==
    /\ workers[w].pc = "idle"
    /\ workers'[w].pc # "idle"
    /\ workers'[w].msg.command # None
    /\ workers'[w].msg.command \notin DOMAIN _c2_callbackMap

\* C8: a message whose command is not in the registry when it is dispatched
\* is acked, never nacked, no handler or closure is called for it, nothing
\* is published, and the registry and the table stay as they were.
C8_UnknownCommandDiscarded ==
    [][\A w \in Workers :
          UnknownCommandStep(w) =>
              /\ workers'[w].pc = "done"
              /\ workers'[w].acks = 1
              /\ workers'[w].nacks = 0
              /\ workers'[w].raised = None
              /\ workers'[w].result = None
              /\ workers'[w].invoked = <<>>
              /\ workers'[w].sent = <<>>
              /\ _c2_callbackMap' = _c2_callbackMap
              /\ _c2_ackMap' = _c2_ackMap
              /\ published' = published]_vars

C8_Witness ==
    \E w \in Workers :
        /\ Done(w)
        /\ workers[w].msg.command \notin DOMAIN _c2_callbackMap \cup {None}
        /\ workers[w].acks = 1
        /\ workers[w].result = None
        /\ startupT.pc = "done"

\* C9 as claimed: a message without a command attribute, or with a
\* registered command and data that is not JSON, is acked, never nacked, no
\* handler is called for it and no exception leaves the dispatcher.
C9_AsClaimed ==
    \A w \in Workers :
        (Done(w) /\ (\/ workers[w].msg.command = None
                     \/ workers[w].callback # None /\ ~Parsed(w))) =>
            /\ workers[w].acks = 1
            /\ workers[w].nacks = 0
            /\ workers[w].result = None
            /\ workers[w].invoked = <<>>
            /\ workers[w].raised = None

\* C10 as claimed: the dispatch of an ACK or UPDATE message ends in one
\* transport ack and no nack: without an ackid, without an entry for it, and
\* with an entry, whatever the closure does.
C10_AsClaimed ==
    \A w \in Workers :
        (Done(w) /\ workers[w].callback \in {"cb_ack", "cb_update"} /\ Parsed(w)) =>
            /\ workers[w].acks = 1
            /\ workers[w].nacks = 0

\* The commands whose handlers the registry must hold before traffic.
CoreCommands == {"ACK", "UPDATE", "PING", "PONG"}

\* C11 as claimed: no message is in dispatch while one of ACK, UPDATE, PING,
\* PONG is still unregistered, and no message with one of these commands is
\* discarded as an unknown command.
C11_AsClaimed ==
    \A w \in Workers :
        workers[w].pc # "idle" =>
            /\ CoreCommands \subseteq DOMAIN _c2_callbackMap
            /\ workers[w].msg.command \in CoreCommands => workers[w].callback # None

\* C12: a call of startup() made when the module is initialized is turned
\* away: it builds no state object, creates no subscription, starts no
\* receive loop and leaves the registry, the table and the published
\* messages as they were; one receive loop is started in all.
C12_DoubleStartupRejected ==
    /\ [](startupT.loops <= 1)
    /\ [][(startupT.pc \in {"done", "failed"} /\ startupT' # startupT) =>
              /\ startupT'.pc = "rejected"
              /\ startupT'.loops = startupT.loops
              /\ _c2State' = _c2State
              /\ subscriptions' = subscriptions
              /\ _c2_callbackMap' = _c2_callbackMap
              /\ _c2_ackMap' = _c2_ackMap
              /\ published' = published]_vars
    /\ [][startupT.pc = "rejected" =>
              /\ startupT'.pc \in {"done", "failed"}
              /\ startupT'.pc = startupT.ret
              /\ startupT'.loops = startupT.loops
              /\ UNCHANGED <<_c2State, subscriptions, _c2_callbackMap, _c2_ackMap,
                             published>>]_vars

C12_Witness ==
    /\ startupT.pc = "rejected"
    /\ _c2State.streaming_pull_future
    /\ startupT.loops = 1
    /\ DOMAIN _c2_callbackMap # {}

\* A step of callback thread w in the dispatch of a message with command c.
DispatchStep(w, c) ==
    /\ workers'[w] # workers[w]
    /\ workers[w].msg.command = c \/ workers'[w].msg.command = c

\* C14: the dispatch of a PING from source S whose body carries 'id': v
\* publishes one message, PONG with body {id: v} and target S, and the PING
\* is acked; the dispatch of a PING whose body carries no id publishes
\* nothing and the PING is acked; no step of the dispatch of a PONG
\* publishes anything.
C14_PingPong ==
    /\ [](\A w \in Workers :
            (Done(w) /\ workers[w].callback = "c2_ping" /\ Parsed(w)) =>
                /\ workers[w].acks = 1 /\ workers[w].nacks = 0
                /\ workers[w].raised = None
                /\ "id" \in DOMAIN Body(w) =>
                      /\ Len(workers[w].sent) = 1
                      /\ workers[w].sent[1].command = "PONG"
                      /\ JsonLoads(workers[w].sent[1].data) = [id |-> Body(w)["id"]]
                      /\ workers[w].sent[1].target = workers[w].msg.source
                      /\ workers[w].sent[1] \in published
                /\ "id" \notin DOMAIN Body(w) => workers[w].sent = <<>>)
    /\ [][\A w \in Workers :
            /\ DispatchStep(w, "PONG") => published' = published
            /\ DispatchStep(w, "PING") =>
                  published' \ published \subseteq
                     {workers'[w].sent[i] : i \in 1..Len(workers'[w].sent)}]_vars

C14_Witness ==
    \E w \in Workers :
        /\ Done(w) /\ workers[w].callback = "c2_ping"
        /\ "id" \in DOMAIN Body(w)
        /\ workers[w].msg.source \in Sources
        /\ published = {send_message("PONG", [id |-> Body(w)["id"]], workers[w].msg.source)}
        /\ workers[w].acks = 1

\* The step in which thread w calls the response closure it looked up.
ClosureCallStep(w) ==
    /\ workers[w].pc = "call"
    /\ workers'[w].pc # "call"

\* C16 as claimed: with an ACK and an UPDATE for one ackid X dispatched by
\* different threads, no call of X's closure by cb_update begins after
\* cb_ack has removed X from the table, and a dispatch calls the closure at
\* most once.
C16_AsClaimed ==
    [][\A w \in Workers :
          ClosureCallStep(w) =>
              /\ Len(workers'[w].invoked) <= 1
              /\ workers[w].callback = "cb_update" =>
                    AckidOf(w) \in DOMAIN _c2_ackMap]_vars

\* The entry of the table for ackid x (None: there is none).
Entry(map, x) == DictGet(map, x)

\* The step is send_command storing closure f under the fresh ackid x.
StoresEntry(x, f) ==
    /\ sender.pc = "idle"
    /\ sender'.pc = "publish"
    /\ sender'.onResponse = f
    /\ sender'.data["ackid"] = x
    /\ f \in RespHandlers

\* The step is cb_ack's lookup in the dispatch of an ACK carrying ackid x.
AckRemovesEntry(x) ==
    \E w \in Workers :
        /\ workers[w].pc = "handler"
        /\ workers'[w].pc # "handler"
        /\ workers[w].msg.command = "ACK"
        /\ workers[w].callback = "cb_ack"
        /\ AckidOf(w) = x

\* C17: the table gets an entry for ackid X only in a send_command call
\* with a response closure, which stores the closure under the fresh X, and
\* loses it only in the dispatch of an ACK carrying X; no step replaces the
\* closure of an entry, and every other step (send_update, the dispatch of
\* UPDATE, PING, PONG, CLUSTER_STATUS, unknown or malformed messages and of
\* ACKs with another ackid, register_command, startup) leaves the entry as
\* it is.
C17_EntryLifetime ==
    [][\A x \in AllUuids \cup {"ux", ""} :
          Entry(_c2_ackMap', x) # Entry(_c2_ackMap, x) =>
              \/ /\ Entry(_c2_ackMap, x) = None
                 /\ StoresEntry(x, Entry(_c2_ackMap', x))
              \/ /\ Entry(_c2_ackMap', x) = None
                 /\ AckRemovesEntry(x)]_vars

\* An entry has outlived the dispatch of an UPDATE for its ackid and of one
\* more message.
C17_Witness ==
    \E w \in Workers :
        /\ Done(w) /\ workers[w].callback = "cb_update" /\ HasAckid(w)
        /\ workers[w].found # None
        /\ Entry(_c2_ackMap, AckidOf(w)) = issued[1]
        /\ AckidOf(w) = Uuid(1)
        /\ nDispatch >= 2
        /\ \E m \in published : m.command = "UPDATE"

\* The ackids of the command messages handed to the transport so far.
CommandAckids ==
    {JsonLoads(m.data)["ackid"] :
        m \in {x \in published : x.command \in OutCommands
                                   /\ "ackid" \in DOMAIN JsonLoads(x.data)}}

\* C18: send_command stores the entry for the generated ackid X before it
\* hands the command to the transport: whenever a command message carrying X
\* has been published and cb_ack has not taken X's entry, the table holds
\* the closure under X; and an ACK for X that finds no entry finds none
\* because an earlier or concurrent ACK for X took it.
C18_StoredBeforePublished ==
    /\ \A n \in 1..Len(issued) :
          (Uuid(n) \in CommandAckids /\ Pending(n)) =>
              Entry(_c2_ackMap, Uuid(n)) = issued[n]
    /\ sender.pc = "publish" /\ sender.onResponse # None =>
          /\ sender.data["ackid"] \notin CommandAckids
          /\ Entry(_c2_ackMap, sender.data["ackid"]) = sender.onResponse
    /\ \A w \in Workers :
          (Done(w) /\ workers[w].callback = "cb_ack" /\ HasAckid(w)
                   /\ AckidOf(w) \in CommandAckids /\ workers[w].found = None) =>
              AckTook(w, AckidOf(w))

C18_Witness ==
    \E w \in Workers :
        /\ workers[w].pc = "handler" /\ workers[w].callback = "cb_ack"
        /\ AckidOf(w) \in CommandAckids
        /\ Entry(_c2_ackMap, AckidOf(w)) # None
        /\ lastSend.done

MessagesTo(c) ==
    {send_message(cmd, d, get_cluster_sub_id(c)) :
        cmd \in OutCommands \cup {"UPDATE", "PONG"},
        d \in DataInputs \cup {[id |-> "42"]} \cup {[ackid |-> x] : x \in AllUuids}}

\* C13: with the controller's subscription created with filter_target=False
\* and each cluster's with filter_target=True, a message published with
\* target cluster_i is delivered to the subscription of cluster i and to no
\* other, and a message without a target attribute to the controller's
\* subscription and to no other.
C13_Addressing ==
    /\ \A c \in AllClusterIds : \A m \in MessagesTo(c) :
          Receivers(PublishedAttributes(m)) =
             {get_subscription_path(get_cluster_sub_id(c))} \cap DOMAIN subscriptions
    /\ \A m \in AllInboundMessages :
          Receivers(ClusterAttributes(m)) =
             {get_subscription_path(ControllerSubId)} \cap DOMAIN subscriptions

C13_Witness ==
    /\ \A s \in SubIds : get_subscription_path(s) \in DOMAIN subscriptions
    /\ subCall.paths["cluster_7"] # None
    /\ subCall.paths["cluster_8"] # None
    /\ \E m \in MessagesTo("7") :
          Receivers(PublishedAttributes(m)) = {get_subscription_path("cluster_7")}
    /\ \E m \in AllInboundMessages :
          Receivers(ClusterAttributes(m)) = {get_subscription_path(ControllerSubId)}

\* C15: a get_or_create_subscription call that finds the subscription
\* existing does not raise, leaves the subscriptions and their filters as
\* they were and returns the path the creating call returned; a creation
\* that fails for another reason raises to the caller, returns nothing and
\* creates nothing, and in startup() it ends the start.
C15_CreationIdempotent ==
    /\ (subCall.pc = "ended" /\ subCall.op = "get_or_create_subscription") =>
          /\ subCall.answer = "AlreadyExists" =>
                /\ subCall.raised = None
                /\ subscriptions = subCall.before
                /\ subCall.retval = get_subscription_path(subCall.sub_id)
                /\ subCall.paths[subCall.sub_id] \in {None, subCall.retval}
          /\ subCall.answer = TransportError =>
                /\ subCall.raised = TransportError
                /\ subCall.retval = None
                /\ subscriptions = subCall.before
          /\ subCall.answer = "Created" =>
                /\ subCall.raised = None => subCall.retval = subCall.paths[subCall.sub_id]
                /\ DOMAIN subscriptions =
                      DOMAIN subCall.before \cup {get_subscription_path(subCall.sub_id)}
    /\ startupT.pc = "failed" =>
          /\ ~_c2State.streaming_pull_future
          /\ _c2_callbackMap = EmptyDict

C15_Witness ==
    /\ subCall.pc = "ended" /\ subCall.op = "get_or_create_subscription"
    /\ subCall.answer = "AlreadyExists"
    /\ subCall.paths[subCall.sub_id] = subCall.retval
    /\ subCall.sub_id # ControllerSubId

\* C19 as claimed: when get_or_create_subscription(sub_id, service_account=p)
\* has returned normally, p holds the subscriber role on the subscription
\* and the publisher role on the topic, whether the call created the
\* subscription or found it.
C19_AsClaimed ==
    (/\ subCall.pc = "ended" /\ subCall.op = "get_or_create_subscription"
     /\ subCall.service_account # None /\ subCall.raised = None) =>
        /\ Binding(get_subscription_path(subCall.sub_id), "roles/pubsub.subscriber",
                   subCall.service_account) \in iam
        /\ Binding(TopicPath, "roles/pubsub.publisher",
                   subCall.service_account) \in iam

====
